---- MODULE Spec2Model ----
(***************************************************************************)
(* Model of the API-key authentication module (src/auth.py) and its admin  *)
(* routes (src/admin.py): the key store and its persisted snapshot, the    *)
(* per-key token buckets, request authentication and the admin gate.       *)
(*                                                                         *)
(* Time is counted in ticks of 1/TicksPerSec second: time.time() is the    *)
(* tick count, now_ts() its truncation to whole seconds.  Token counts,    *)
(* which the code keeps as floats, are fixed-point numbers in units of     *)
(* 1/TicksPerSec token, so that one token is TicksPerSec units.            *)
(***************************************************************************)
EXTENDS Integers, Sequences, FiniteSets

\* ------------------------------------------------------------------ bounds

TicksPerSec == 2
MaxFineTicks == 2
MaxDays == 1
NumThreads == 2

\* ------------------------------------------------- configuration (auth.py)

ADMIN_API_KEY == "admin_key_change_me"
RATE_LIMIT_CAPACITY == 2
RATE_LIMIT_REFILL_PER_SEC == 1
SecondsPerDay == 86400

\* ------------------------------------------------------------ input domains

Keys == {"k1", "k2"}
NoKey == ""
KeyCandidates == Keys \cup {NoKey}
AdminCandidates == {ADMIN_API_KEY, "admin_key_change_mE", NoKey}
ClientNames == {"acme"}
DaysValidInputs == {0, 1}
DaysValidConc == {1}
SaveOutcomes == {"ok", "open_fails", "write_fails"}
Threads == 1..NumThreads

VARIABLES
    api_keys_store,   \* the in-memory dict key -> record
    token_buckets,    \* the in-memory dict key -> bucket
    file,             \* the content of API_KEYS_FILE
    clock,            \* the wall clock, in ticks
    ret,              \* the outcome of the last call made on its own
    th,               \* per thread: the frame of the call it is running
    orphans,          \* bucket dicts no longer in token_buckets that a running
                      \* call still holds a reference to
    sig               \* the last signature verification: its inputs and result

vars == <<api_keys_store, token_buckets, file, clock, ret, th, orphans, sig>>

shared == <<api_keys_store, token_buckets, file, clock>>

conc == <<th, orphans, sig>>

\* ------------------------------------------------------------------- time

DayTicks == SecondsPerDay * TicksPerSec

time_time(clk) == clk

now_ts(clk) == clk \div TicksPerSec

\* ------------------------------------------------------------------ dicts

\* A dict is a function on the set of its keys.
EmptyDict == <<>>

Has(d, k) == k \in DOMAIN d

Get(d, k) == d[k]

Put(d, k, v) == [x \in DOMAIN d \cup {k} |-> IF x = k THEN v ELSE d[x]]

Del(d, k) == [x \in DOMAIN d \ {k} |-> d[x]]

\* ---------------------------------------------------------------- records

Tok(n) == n * TicksPerSec

NewRecord(client_name, days_valid, clk) ==
    [client_name |-> client_name,
     created_at |-> now_ts(clk),
     expires_at |-> now_ts(clk) + days_valid * SecondsPerDay,
     rate_capacity |-> RATE_LIMIT_CAPACITY,
     rate_refill_per_sec |-> RATE_LIMIT_REFILL_PER_SEC]

NewBucket(capacity, refill_per_sec, clk) ==
    [tokens |-> Tok(capacity),
     last_refill |-> time_time(clk),
     capacity |-> capacity,
     refill_per_sec |-> refill_per_sec]

\* Mutant: a key counts as expired from the very second it expires at.
Expired_AtBoundary(record, clk) == now_ts(clk) >= record.expires_at

Expired(record, clk) == now_ts(clk) > record.expires_at

\* --------------------------------------------------------------- snapshot

NoFile == [exists |-> FALSE, ok |-> FALSE, size |-> 0, members |-> {}]

Truncated == [exists |-> TRUE, ok |-> FALSE, size |-> 0, members |-> {}]

EncodeRecord(r) ==
    <<r.client_name, r.created_at, r.expires_at, r.rate_capacity, r.rate_refill_per_sec>>

DecodeRecord(m) ==
    [client_name |-> m[1], created_at |-> m[2], expires_at |-> m[3],
     rate_capacity |-> m[4], rate_refill_per_sec |-> m[5]]

json_dump(data) == {<<k, EncodeRecord(data[k])>> : k \in DOMAIN data}

json_load(doc) ==
    [k \in {m[1] : m \in doc} |-> DecodeRecord((CHOOSE m \in doc : m[1] = k)[2])]

\* Writing a buffered document at offset 0 of the file as it now is: bytes of
\* a longer content written meanwhile stay behind it.
WriteAt0(f, doc) ==
    IF f.size > Cardinality(doc)
    THEN [exists |-> TRUE, ok |-> FALSE, size |-> f.size, members |-> {}]
    ELSE [exists |-> TRUE, ok |-> TRUE, size |-> Cardinality(doc), members |-> doc]

save_api_keys(data, f, outcome) ==
    CASE outcome = "ok" -> WriteAt0(Truncated, json_dump(data))
      [] outcome = "open_fails" -> f
      [] outcome = "write_fails" -> Truncated

Loadable(f) == ~f.exists \/ f.ok

load_api_keys(f) == IF f.exists THEN json_load(f.members) ELSE EmptyDict

\* ----------------------------------------------------------- rate limiting

Min(a, b) == IF a <= b THEN a ELSE b

\* Mutant: the refill is not clamped to the capacity.
Refill_Unclamped(bucket, now) ==
    bucket.tokens + (now - bucket.last_refill) * bucket.refill_per_sec

RefillAmount(bucket, now) == (now - bucket.last_refill) * bucket.refill_per_sec

Refill(bucket, now) ==
    Min(Tok(bucket.capacity), bucket.tokens + RefillAmount(bucket, now))

\* The bucket a check works on: the key's bucket, or a new full one.
SetDefault(tb, key, record, clk) ==
    IF key \in DOMAIN tb
    THEN tb[key]
    ELSE NewBucket(record.rate_capacity, record.rate_refill_per_sec, clk)

Refilled(bucket, clk) ==
    [bucket EXCEPT !.tokens = Refill(bucket, time_time(clk)),
                   !.last_refill = time_time(clk)]

\* Mutant: a check needs more than one token.
Admits_MoreThanOne(bucket) == bucket.tokens > Tok(1)

Admits(bucket) == bucket.tokens >= Tok(1)

TakeToken(bucket) == [bucket EXCEPT !.tokens = @ - Tok(1)]

\* Mutant: a token is taken whether the check admits or not.
Consume_Always(bucket) == TakeToken(bucket)

Consume(bucket) == IF Admits(bucket) THEN TakeToken(bucket) ELSE bucket

\* verify_rate_limit as a function of the state: its result and the buckets after it.
RateLimitResult(store, tb, key, clk) ==
    IF ~Has(store, key) THEN FALSE
    ELSE IF Expired(Get(store, key), clk) THEN FALSE
    ELSE Admits(Refilled(SetDefault(tb, key, Get(store, key), clk), clk))

RateLimitBuckets(store, tb, key, clk) ==
    IF ~Has(store, key) \/ Expired(Get(store, key), clk) THEN tb
    ELSE Put(tb, key,
             Consume(Refilled(SetDefault(tb, key, Get(store, key), clk), clk)))

\* ------------------------------------------------------------------ AuthGate

VerifyApiKeyStatus(store, tb, x_api_key, clk) ==
    IF x_api_key = NoKey THEN "MissingKey"
    ELSE IF ~Has(store, x_api_key) THEN "InvalidKey"
    ELSE IF Expired(Get(store, x_api_key), clk) THEN "Expired"
    ELSE IF ~RateLimitResult(store, tb, x_api_key, clk) THEN "RateLimited"
    ELSE "ok"

\* Mutant: the rate-limit check runs before the expiry check.
VerifyApiKeyBuckets_RateFirst(store, tb, x_api_key, clk) ==
    IF x_api_key = NoKey \/ ~Has(store, x_api_key) THEN tb
    ELSE Put(tb, x_api_key,
             Consume(Refilled(SetDefault(tb, x_api_key, Get(store, x_api_key), clk), clk)))

VerifyApiKeyBuckets(store, tb, x_api_key, clk) ==
    IF x_api_key = NoKey \/ ~Has(store, x_api_key) THEN tb
    ELSE IF Expired(Get(store, x_api_key), clk) THEN tb
    ELSE RateLimitBuckets(store, tb, x_api_key, clk)

\* Mutant: a create makes no bucket.
CreateBucket_None(tb, key, clk) == tb

CreateBucket(tb, key, clk) ==
    Put(tb, key, NewBucket(RATE_LIMIT_CAPACITY, RATE_LIMIT_REFILL_PER_SEC, clk))

\* Mutant: a revoke of a live key empties the key store.
RevokeStore_All(store, key) == IF Has(store, key) THEN EmptyDict ELSE store

RevokeStore(store, key) == IF Has(store, key) THEN Del(store, key) ELSE store

\* Mutant: a revoke drops every bucket along with the key's.
RevokeBuckets_Clear(tb, key) == IF Has(tb, key) THEN EmptyDict ELSE tb

\* Mutant: a revoke leaves the key's bucket behind.
RevokeBuckets_Keep(tb, key) == tb

RevokeBuckets(tb, key) == IF Has(tb, key) THEN Del(tb, key) ELSE tb

\* Mutant: any admin key that is present passes.
verify_admin_AnyPresent(x_admin_api_key) == x_admin_api_key # NoKey

verify_admin(x_admin_api_key) == x_admin_api_key = ADMIN_API_KEY

\* secrets.token_urlsafe(32): a key that no live record carries and no
\* running call has drawn or been given.
FreshKeys ==
    (Keys \ DOMAIN api_keys_store) \ {th[t].key : t \in {u \in Threads : th[u].pc # "idle"}}

IdleFrame ==
    [pc |-> "idle", op |-> "none", key |-> NoKey, status |-> "none",
     rec |-> <<>>, bref |-> 0, now |-> 0, amt |-> 0, buf |-> {}]

Ret(op, key, status) == [op |-> op, key |-> key, status |-> status]

NoSig == [fn |-> "none"]

\* ------------------------------------------------------------ the handlers

\* The module has been imported.
Imported ==
    /\ file = NoFile
    /\ api_keys_store = load_api_keys(file)
    /\ token_buckets = EmptyDict
    /\ clock = 0
    /\ ret = Ret("start", NoKey, "ok")
    /\ th = [t \in Threads |-> IdleFrame]
    /\ orphans = EmptyDict

Init == Imported /\ sig = NoSig

create_key(x_admin, client_name, days_valid, outcome) ==
    IF ~verify_admin(x_admin)
    THEN /\ ret' = Ret("create_key", NoKey, "InvalidAdminKey")
         /\ UNCHANGED <<api_keys_store, token_buckets, file, clock, conc>>
    ELSE \E key \in FreshKeys :
           LET record == NewRecord(client_name, days_valid, clock) IN
           /\ api_keys_store' = Put(api_keys_store, key, record)
           /\ file' = save_api_keys(api_keys_store', file, outcome)
           /\ IF outcome = "ok"
              THEN /\ token_buckets' = CreateBucket(token_buckets, key, clock)
                   /\ ret' = Ret("create_key", key, "ok")
              ELSE /\ token_buckets' = token_buckets
                   /\ ret' = Ret("create_key", key, "IOError")
           /\ UNCHANGED <<clock, conc>>

list_keys(x_admin) ==
    /\ ret' = IF verify_admin(x_admin)
              THEN Ret("list_keys", NoKey, "ok")
              ELSE Ret("list_keys", NoKey, "InvalidAdminKey")
    /\ UNCHANGED <<api_keys_store, token_buckets, file, clock, conc>>

revoke_key(x_admin, key, outcome) ==
    IF ~verify_admin(x_admin)
    THEN /\ ret' = Ret("revoke_key", key, "InvalidAdminKey")
         /\ UNCHANGED <<api_keys_store, token_buckets, file, clock, conc>>
    ELSE IF Has(api_keys_store, key)
    THEN /\ api_keys_store' = RevokeStore(api_keys_store, key)
         /\ file' = save_api_keys(api_keys_store', file, outcome)
         /\ IF outcome = "ok"
            THEN /\ token_buckets' = RevokeBuckets(token_buckets, key)
                 /\ ret' = Ret("revoke_key", key, "ok")
            ELSE /\ token_buckets' = token_buckets
                 /\ ret' = Ret("revoke_key", key, "IOError")
         /\ UNCHANGED <<clock, conc>>
    ELSE /\ outcome = "ok"
         /\ token_buckets' = RevokeBuckets(token_buckets, key)
         /\ ret' = Ret("revoke_key", key, "ok")
         /\ UNCHANGED <<api_keys_store, file, clock, conc>>

verify_rate_limit(key) ==
    /\ token_buckets' = RateLimitBuckets(api_keys_store, token_buckets, key, clock)
    /\ ret' = Ret("verify_rate_limit", key,
                  IF RateLimitResult(api_keys_store, token_buckets, key, clock)
                  THEN "True" ELSE "False")
    /\ UNCHANGED <<api_keys_store, file, clock, conc>>

verify_api_key(x_api_key) ==
    LET status == VerifyApiKeyStatus(api_keys_store, token_buckets, x_api_key, clock) IN
    /\ token_buckets' = VerifyApiKeyBuckets(api_keys_store, token_buckets, x_api_key, clock)
    /\ ret' = Ret("verify_api_key", x_api_key, status)
    /\ UNCHANGED <<api_keys_store, file, clock, conc>>

\* Time passes: by one tick, or by a day.
Tick ==
    /\ \/ /\ clock % DayTicks < MaxFineTicks
          /\ clock' = clock + 1
       \/ /\ clock \div DayTicks < MaxDays
          /\ clock' = clock + DayTicks
    /\ ret' = Ret("tick", NoKey, "ok")
    /\ UNCHANGED <<api_keys_store, token_buckets, file, conc>>

\* The process starts again: the module-level state is rebuilt.
Restart ==
    /\ Loadable(file)
    /\ api_keys_store' = load_api_keys(file)
    /\ token_buckets' = EmptyDict
    /\ ret' = Ret("start", NoKey, "ok")
    /\ UNCHANGED <<file, clock, conc>>

Next ==
    \/ \E x \in AdminCandidates, c \in ClientNames, d \in DaysValidInputs :
          create_key(x, c, d, "ok")
    \/ \E x \in AdminCandidates : list_keys(x)
    \/ \E x \in AdminCandidates, k \in Keys : revoke_key(x, k, "ok")
    \/ \E k \in Keys : verify_rate_limit(k)
    \/ \E x \in KeyCandidates : verify_api_key(x)
    \/ Tick
    \/ Restart

\* The handlers one call at a time, every write of the snapshot succeeding.
Spec == Init /\ [][Next]_vars

NextIO ==
    \/ \E x \in AdminCandidates, c \in ClientNames, d \in DaysValidInputs,
          o \in SaveOutcomes : create_key(x, c, d, o)
    \/ \E x \in AdminCandidates : list_keys(x)
    \/ \E x \in AdminCandidates, k \in Keys, o \in SaveOutcomes : revoke_key(x, k, o)
    \/ \E k \in Keys : verify_rate_limit(k)
    \/ \E x \in KeyCandidates : verify_api_key(x)
    \/ Restart

\* The handlers one call at a time, a write of the snapshot failing or not,
\* within one instant of the clock.
SpecIO == Init /\ [][NextIO]_vars

\* ------------------------------------------- the handlers, line by line
\*
\* Calls running at once.  A thread runs one call; a step is one line of the
\* code (one access to the module's dicts, the file or the clock), named by
\* its line in src/auth.py.  The admin routes are plain functions, which the
\* router runs on worker threads; verify_api_key is a coroutine without an
\* await, so that no two of them are in progress at once; verify_rate_limit
\* is a plain function, callable from any thread.  The calls are those whose
\* admin check has passed and whose writes of the snapshot succeed, within
\* one instant of the clock.

\* The pcs at which a call holds a reference to a bucket dict.
BucketPcs == {"rl105", "rl106", "rl108", "rl109", "rl111", "rl112"}

Frame(t) == th[t]

Done(f, status) == [IdleFrame EXCEPT !.op = f.op, !.key = f.key, !.status = status]

\* verify_rate_limit returns, to verify_api_key (lines 132-135) or to its caller.
Return(f, admitted) ==
    IF f.op = "verify_api_key"
    THEN Done(f, IF admitted THEN "ok" ELSE "RateLimited")
    ELSE Done(f, IF admitted THEN "True" ELSE "False")

\* The bucket dict thread t holds: the one in token_buckets or an orphan.
Bkt(t) == IF th[t].bref = 0 THEN token_buckets[th[t].key] ELSE orphans[th[t].bref]

SetBkt(t, b) ==
    /\ token_buckets' = IF th[t].bref = 0 THEN Put(token_buckets, th[t].key, b)
                        ELSE token_buckets
    /\ orphans' = IF th[t].bref = 0 THEN orphans ELSE Put(orphans, th[t].bref, b)

\* The threads holding the bucket dict that token_buckets has for key.
Holders(key) ==
    {u \in Threads : th[u].pc \in BucketPcs /\ th[u].key = key /\ th[u].bref = 0}

NewOrphan == CHOOSE n \in Threads : n \notin DOMAIN orphans /\
                 \A m \in Threads : m \notin DOMAIN orphans => n <= m

\* token_buckets drops (or replaces) its dict for key as thread t moves to
\* frame f: the dict lives on for the threads that hold it.
Unlink(t, f, key) ==
    /\ ret' = Ret(f.op, f.key, f.status)
    /\ IF Holders(key) = {}
       THEN /\ orphans' = orphans
            /\ th' = [th EXCEPT ![t] = IdleFrame]
       ELSE /\ orphans' = Put(orphans, NewOrphan, token_buckets[key])
            /\ th' = [u \in Threads |->
                        IF u = t THEN IdleFrame
                        ELSE IF u \in Holders(key)
                             THEN [th[u] EXCEPT !.bref = NewOrphan]
                             ELSE th[u]]

\* The orphans left once thread t has let go of its bucket dict.
Release(t, orph) ==
    IF th[t].bref # 0 /\ \A u \in Threads \ {t} : th[u].bref # th[t].bref
    THEN Del(orph, th[t].bref)
    ELSE orph

At(t, pc) == th[t].pc = pc

\* Thread t moves to frame f; a call that ends leaves its outcome in ret.
Land(t, f) ==
    /\ th' = [th EXCEPT ![t] = IF f.pc = "idle" THEN IdleFrame ELSE f]
    /\ ret' = IF f.pc = "idle" THEN Ret(f.op, f.key, f.status) ELSE ret

Goto(t, pc) == th' = [th EXCEPT ![t].pc = pc]

\* create_key: lines 50-60.
CallCreate(t, client_name, days_valid) ==
    /\ At(t, "idle")
    /\ \E key \in FreshKeys :
         th' = [th EXCEPT ![t] = [IdleFrame EXCEPT
                    !.pc = "c62", !.op = "create_key", !.key = key,
                    !.rec = <<NewRecord(client_name, days_valid, clock)>>]]
    /\ UNCHANGED <<shared, ret, orphans, sig>>

c62(t) ==
    /\ At(t, "c62")
    /\ api_keys_store' = Put(api_keys_store, th[t].key, th[t].rec[1])
    /\ Goto(t, "save_open")
    /\ UNCHANGED <<token_buckets, file, clock, ret, orphans, sig>>

\* save_api_keys: open(API_KEYS_FILE, "w") truncates the file.
save_open(t) ==
    /\ At(t, "save_open")
    /\ file' = Truncated
    /\ Goto(t, "save_dump")
    /\ UNCHANGED <<api_keys_store, token_buckets, clock, ret, orphans, sig>>

\* save_api_keys: json.dump writes the dict as it now is into the file's buffer.
save_dump(t) ==
    /\ At(t, "save_dump")
    /\ th' = [th EXCEPT ![t].pc = "save_close", ![t].buf = json_dump(api_keys_store)]
    /\ UNCHANGED <<shared, ret, orphans, sig>>

\* save_api_keys: leaving the with block writes the buffer out at offset 0.
save_close(t) ==
    /\ At(t, "save_close")
    /\ file' = WriteAt0(file, th[t].buf)
    /\ th' = [th EXCEPT ![t].pc = IF th[t].op = "create_key" THEN "c65" ELSE "r79",
                        ![t].buf = {}]
    /\ UNCHANGED <<api_keys_store, token_buckets, clock, ret, orphans, sig>>

c65(t) ==
    /\ At(t, "c65")
    /\ token_buckets' = CreateBucket(token_buckets, th[t].key, clock)
    /\ Unlink(t, Done(th[t], "ok"), th[t].key)
    /\ UNCHANGED <<api_keys_store, file, clock, sig>>

\* revoke_key: line 76.
CallRevoke(t, key) ==
    /\ At(t, "idle")
    /\ th' = [th EXCEPT ![t] = [IdleFrame EXCEPT
                 !.pc = IF Has(api_keys_store, key) THEN "r77" ELSE "r79",
                 !.op = "revoke_key", !.key = key]]
    /\ UNCHANGED <<shared, ret, orphans, sig>>

\* del api_keys_store[key] raises KeyError when the key has gone meanwhile.
r77(t) ==
    /\ At(t, "r77")
    /\ IF Has(api_keys_store, th[t].key)
       THEN /\ api_keys_store' = Del(api_keys_store, th[t].key)
            /\ Goto(t, "save_open")
            /\ ret' = ret
       ELSE /\ api_keys_store' = api_keys_store
            /\ Land(t, Done(th[t], "KeyError"))
    /\ UNCHANGED <<token_buckets, file, clock, orphans, sig>>

r79(t) ==
    /\ At(t, "r79")
    /\ Land(t, IF Has(token_buckets, th[t].key)
               THEN [th[t] EXCEPT !.pc = "r80"]
               ELSE Done(th[t], "ok"))
    /\ UNCHANGED <<shared, orphans, sig>>

r80(t) ==
    /\ At(t, "r80")
    /\ IF Has(token_buckets, th[t].key)
       THEN /\ token_buckets' = Del(token_buckets, th[t].key)
            /\ Unlink(t, Done(th[t], "ok"), th[t].key)
       ELSE /\ token_buckets' = token_buckets
            /\ Land(t, Done(th[t], "KeyError"))
            /\ orphans' = orphans
    /\ UNCHANGED <<api_keys_store, file, clock, sig>>

CallList(t) ==
    /\ At(t, "idle")
    /\ Land(t, Done([IdleFrame EXCEPT !.op = "list_keys"], "ok"))
    /\ UNCHANGED <<shared, orphans, sig>>

\* verify_api_key: lines 122-127.
CallVerifyApiKey(t, x_api_key) ==
    /\ At(t, "idle")
    /\ \A u \in Threads : th[u].pc = "idle" \/ th[u].op # "verify_api_key"
    /\ LET f == [IdleFrame EXCEPT !.op = "verify_api_key", !.key = x_api_key] IN
       Land(t, IF x_api_key = NoKey THEN Done(f, "MissingKey")
               ELSE IF ~Has(api_keys_store, x_api_key) THEN Done(f, "InvalidKey")
               ELSE [f EXCEPT !.pc = "va129",
                              !.rec = <<Get(api_keys_store, x_api_key)>>])
    /\ UNCHANGED <<shared, orphans, sig>>

va129(t) ==
    /\ At(t, "va129")
    /\ Land(t, IF Expired(th[t].rec[1], clock)
               THEN Done(th[t], "Expired")
               ELSE [th[t] EXCEPT !.pc = "rl88", !.rec = <<>>])
    /\ UNCHANGED <<shared, orphans, sig>>

\* verify_rate_limit: lines 88-90, on frame f.
Lines88to90(f) ==
    IF ~Has(api_keys_store, f.key) THEN Return(f, FALSE)
    ELSE [f EXCEPT !.pc = "rl92", !.rec = <<Get(api_keys_store, f.key)>>]

rl88(t) ==
    /\ At(t, "rl88")
    /\ Land(t, Lines88to90(th[t]))
    /\ UNCHANGED <<shared, orphans, sig>>

CallRateLimit(t, key) ==
    /\ At(t, "idle")
    /\ Land(t, Lines88to90([IdleFrame EXCEPT !.op = "verify_rate_limit", !.key = key]))
    /\ UNCHANGED <<shared, orphans, sig>>

rl92(t) ==
    /\ At(t, "rl92")
    /\ Land(t, IF Expired(th[t].rec[1], clock)
               THEN Return(th[t], FALSE)
               ELSE [th[t] EXCEPT !.pc = "rl95"])
    /\ UNCHANGED <<shared, orphans, sig>>

rl95(t) ==
    /\ At(t, "rl95")
    /\ token_buckets' = Put(token_buckets, th[t].key,
                            SetDefault(token_buckets, th[t].key, th[t].rec[1], clock))
    /\ th' = [th EXCEPT ![t].pc = "rl105", ![t].rec = <<>>, ![t].bref = 0]
    /\ UNCHANGED <<api_keys_store, file, clock, ret, orphans, sig>>

rl105(t) ==
    /\ At(t, "rl105")
    /\ th' = [th EXCEPT ![t].pc = "rl106", ![t].now = time_time(clock)]
    /\ UNCHANGED <<shared, ret, orphans, sig>>

\* Lines 106 and 107.
rl106(t) ==
    /\ At(t, "rl106")
    /\ th' = [th EXCEPT ![t].pc = "rl108", ![t].amt = RefillAmount(Bkt(t), th[t].now)]
    /\ UNCHANGED <<shared, ret, orphans, sig>>

rl108(t) ==
    /\ At(t, "rl108")
    /\ SetBkt(t, [Bkt(t) EXCEPT !.tokens = Min(Tok(Bkt(t).capacity), @ + th[t].amt)])
    /\ th' = [th EXCEPT ![t].pc = "rl109", ![t].amt = 0]
    /\ UNCHANGED <<api_keys_store, file, clock, ret, sig>>

rl109(t) ==
    /\ At(t, "rl109")
    /\ SetBkt(t, [Bkt(t) EXCEPT !.last_refill = th[t].now])
    /\ th' = [th EXCEPT ![t].pc = "rl111", ![t].now = 0]
    /\ UNCHANGED <<api_keys_store, file, clock, ret, sig>>

\* Lines 111 and 115.
rl111(t) ==
    /\ At(t, "rl111")
    /\ IF Admits(Bkt(t))
       THEN /\ Goto(t, "rl112")
            /\ ret' = ret
            /\ orphans' = orphans
       ELSE /\ Land(t, Return(th[t], FALSE))
            /\ orphans' = Release(t, orphans)
    /\ UNCHANGED <<shared, sig>>

\* Lines 112 and 113.
rl112(t) ==
    /\ At(t, "rl112")
    /\ token_buckets' = IF th[t].bref = 0
                        THEN Put(token_buckets, th[t].key, TakeToken(Bkt(t)))
                        ELSE token_buckets
    /\ orphans' = Release(t, IF th[t].bref = 0 THEN orphans
                             ELSE Put(orphans, th[t].bref, TakeToken(Bkt(t))))
    /\ Land(t, Return(th[t], TRUE))
    /\ UNCHANGED <<api_keys_store, file, clock, sig>>

NextConc ==
    \/ \E t \in Threads, c \in ClientNames, d \in DaysValidConc : CallCreate(t, c, d)
    \/ \E t \in Threads : c62(t)
    \/ \E t \in Threads : save_open(t)
    \/ \E t \in Threads : save_dump(t)
    \/ \E t \in Threads : save_close(t)
    \/ \E t \in Threads : c65(t)
    \/ \E t \in Threads, k \in Keys : CallRevoke(t, k)
    \/ \E t \in Threads : r77(t)
    \/ \E t \in Threads : r79(t)
    \/ \E t \in Threads : r80(t)
    \/ \E t \in Threads : CallList(t)
    \/ \E t \in Threads, x \in KeyCandidates : CallVerifyApiKey(t, x)
    \/ \E t \in Threads : va129(t)
    \/ \E t \in Threads : rl88(t)
    \/ \E t \in Threads, k \in Keys : CallRateLimit(t, k)
    \/ \E t \in Threads : rl92(t)
    \/ \E t \in Threads : rl95(t)
    \/ \E t \in Threads : rl105(t)
    \/ \E t \in Threads : rl106(t)
    \/ \E t \in Threads : rl108(t)
    \/ \E t \in Threads : rl109(t)
    \/ \E t \in Threads : rl111(t)
    \/ \E t \in Threads : rl112(t)

\* The handlers running at once on NumThreads threads.
SpecConc == Init /\ [][NextConc]_vars

NextCreates ==
    \/ \E t \in Threads, c \in ClientNames, d \in DaysValidConc : CallCreate(t, c, d)
    \/ \E t \in Threads : c62(t)
    \/ \E t \in Threads : save_open(t)
    \/ \E t \in Threads : save_dump(t)
    \/ \E t \in Threads : save_close(t)
    \/ \E t \in Threads : c65(t)

\* NumThreads create_key calls running at once, and nothing else.
SpecCreates == Init /\ [][NextCreates]_vars

NextRevoke ==
    \/ \E c \in ClientNames, d \in DaysValidConc : create_key(ADMIN_API_KEY, c, d, "ok")
    \/ \E t \in Threads, k \in Keys : CallRevoke(t, k)
    \/ \E t \in Threads : r77(t)
    \/ \E t \in Threads : save_open(t)
    \/ \E t \in Threads : save_dump(t)
    \/ \E t \in Threads : save_close(t)
    \/ \E t \in Threads : r79(t)
    \/ \E t \in Threads : r80(t)
    \/ \E t \in Threads, x \in KeyCandidates : CallVerifyApiKey(t, x)
    \/ \E t \in Threads : va129(t)
    \/ \E t \in Threads : rl88(t)
    \/ \E t \in Threads, k \in Keys : CallRateLimit(t, k)
    \/ \E t \in Threads : rl92(t)
    \/ \E t \in Threads : rl95(t)
    \/ \E t \in Threads : rl105(t)
    \/ \E t \in Threads : rl106(t)
    \/ \E t \in Threads : rl108(t)
    \/ \E t \in Threads : rl109(t)
    \/ \E t \in Threads : rl111(t)
    \/ \E t \in Threads : rl112(t)

\* revoke_key calls and rate-limit checks running at once on NumThreads
\* threads, each create_key call running with no step of another call
\* between its own.
SpecRevoke == Init /\ [][NextRevoke]_vars

AllIdle == \A t \in Threads : th[t].pc = "idle"

\* ------------------------------------------------- signature verification
\*
\* Strings are strings; None is a value that is no string.  HMAC is taken as
\* ideal: the digest is a term over the algorithm, the key and the message,
\* so that different inputs have different digests.

None == "<None>"

\* Stands for a character outside ASCII.
NonAsciiChar == "~"

MaxParams == 2

ParamKeys == {"A", "B", "AB"}
ParamValues == {"1", "2", "11"}
Urls == {"u"}
AuthTokens == {None, "", "tok"}
SignerTokens == {"tok", "t0k"}

CodePoint(c) ==
    CASE c = "1" -> 49 [] c = "2" -> 50 [] c = "A" -> 65 [] c = "B" -> 66
      [] OTHER -> 0

RECURSIVE LexLess(_, _)
\* Python's order on str: by code point, a proper prefix first.
LexLess(a, b) ==
    IF a = "" THEN b # ""
    ELSE IF b = "" THEN FALSE
    ELSE IF Head(a) = Head(b) THEN LexLess(Tail(a), Tail(b))
    ELSE CodePoint(Head(a)) < CodePoint(Head(b))

RECURSIVE sorted_Descending(_)
\* Mutant: the keys are taken in descending order.
sorted_Descending(ks) ==
    IF ks = {} THEN <<>>
    ELSE LET m == CHOOSE k \in ks : \A j \in ks \ {k} : LexLess(j, k)
         IN <<m>> \o sorted_Descending(ks \ {m})

RECURSIVE sorted(_)
\* sorted(params.keys()), of a set of keys.
sorted(ks) ==
    IF ks = {} THEN <<>>
    ELSE LET m == CHOOSE k \in ks : \A j \in ks \ {k} : LexLess(k, j)
         IN <<m>> \o sorted(ks \ {m})

\* A params dict is given as the sequence of its <<key, value>> items, in the
\* order they were supplied; its keys are distinct.
ParamsOfLen(n) ==
    {p \in [1..n -> ParamKeys \X ParamValues] :
        \A i, j \in 1..n : i # j => p[i][1] # p[j][1]}

AllParams == UNION {ParamsOfLen(n) : n \in 0..MaxParams}

keys(params) == {params[i][1] : i \in 1..Len(params)}

Lookup(params, k) == params[CHOOSE i \in 1..Len(params) : params[i][1] = k][2]

RECURSIVE Concat(_, _)
\* combined += str(params[k]) for each k of ks in turn.
Concat(combined, vals) ==
    IF vals = <<>> THEN combined ELSE Concat(combined \o Head(vals), Tail(vals))

Combined(url, params) ==
    LET ks == sorted(keys(params)) IN
    Concat(url, [i \in 1..Len(ks) |-> Lookup(params, ks[i])])

hmac_digest(alg, key, msg) == alg \o "(" \o key \o "," \o msg \o ")"

b64encode(digest) == "b64:" \o digest

hexdigest(digest) == "hex:" \o digest

IsAscii(s) == \A i \in 1..Len(s) : SubSeq(s, i, i) # NonAsciiChar

\* hmac.compare_digest: a TypeError for None and for a str outside ASCII.
compare_digest(a, b) ==
    IF a = None \/ b = None THEN "raised"
    ELSE IF ~IsAscii(a) \/ ~IsAscii(b) THEN "raised"
    ELSE IF a = b THEN "True" ELSE "False"

\* Mutant: an exception of the body is not caught.
Caught_Propagates(outcome) == outcome

\* try: ... except Exception: return False
Caught(outcome) == IF outcome = "raised" THEN "False" ELSE outcome

TwilioSignatureResult(token, url, params, signature) ==
    IF token = None \/ token = "" THEN "False"
    ELSE Caught(compare_digest(
             b64encode(hmac_digest("sha1", token, Combined(url, params))),
             signature))

\* A signature as a sender computes it: over url and the values of the items
\* taken in the order p, with the token tok.
SignOver(tok, url, params, p) ==
    b64encode(hmac_digest("sha1", tok,
        Concat(url, [i \in 1..Len(params) |-> params[p[i]][2]])))

Orders(n) == {p \in [1..n -> 1..n] : \A i, j \in 1..n : i # j => p[i] # p[j]}

SignatureCandidates(url, params) ==
    {None, "", "b64:sha1(tok,u)" \o NonAsciiChar}
        \cup {SignOver(tok, url, params, p) :
                 tok \in SignerTokens, p \in Orders(Len(params))}

\* The calls of verify_twilio_signature to be made.
TwilioCalls ==
    UNION {{[fn |-> "verify_twilio_signature", token |-> token, url |-> url,
             params |-> params, signature |-> signature, result |-> "pending"] :
               token \in AuthTokens, signature \in SignatureCandidates(url, params)} :
           url \in Urls, params \in AllParams}

verify_twilio_signature ==
    /\ sig.fn = "verify_twilio_signature"
    /\ sig.result = "pending"
    /\ sig' = [sig EXCEPT !.result =
                  TwilioSignatureResult(sig.token, sig.url, sig.params, sig.signature)]
    /\ UNCHANGED <<shared, ret, th, orphans>>

\* Stands for a body that is a str, not bytes.
NotBytes == "<str>"

Bodies == {"ping", "pong", NotBytes}
Secrets == {None, "", "s3cr3t"}
SignerSecrets == {"s3cr3t", "s3cr3T"}

startswith(s, prefix) ==
    Len(s) >= Len(prefix) /\ SubSeq(s, 1, Len(prefix)) = prefix

RECURSIVE AfterFirst(_, _)
\* s.split(sep, 1)[1], for s that holds the one-character sep.
AfterFirst(s, sep) ==
    IF Head(s) = sep THEN Tail(s) ELSE AfterFirst(Tail(s), sep)

\* Lines 173-176.
Signature(signature_header) ==
    IF startswith(signature_header, "sha256=")
    THEN AfterFirst(signature_header, "=")
    ELSE signature_header

\* hmac.new(...).hexdigest(): a TypeError for a body that is not bytes.
Computed(secret, body) ==
    IF body = NotBytes THEN "raised"
    ELSE hexdigest(hmac_digest("sha256", secret, body))

HmacSha256Result(body, signature_header, secret) ==
    IF signature_header = None \/ signature_header = "" THEN "False"
    ELSE IF secret = None \/ secret = "" THEN "False"
    ELSE Caught(IF Computed(secret, body) = "raised" THEN "raised"
                ELSE compare_digest(Computed(secret, body),
                                    Signature(signature_header)))

\* s with its last character replaced.
MutateLast(s) == SubSeq(s, 1, Len(s) - 1) \o "X"

HeaderCandidates(body) ==
    {None, "", "sha256="}
        \cup UNION {LET h == hexdigest(hmac_digest("sha256", sec, body)) IN
                    {h, "sha256=" \o h, "sha256=sha256=" \o h, "SHA256=" \o h,
                     MutateLast(h), "sha256=" \o MutateLast(h),
                     h \o NonAsciiChar, "sha256=" \o h \o "0"} :
                    sec \in SignerSecrets \cup {""}}

\* The calls of verify_hmac_sha256 to be made.
HmacCalls ==
    UNION {{[fn |-> "verify_hmac_sha256", body |-> body,
             signature_header |-> signature_header, secret |-> secret,
             result |-> "pending"] :
               secret \in Secrets, signature_header \in HeaderCandidates(body)} :
           body \in Bodies}

verify_hmac_sha256 ==
    /\ sig.fn = "verify_hmac_sha256"
    /\ sig.result = "pending"
    /\ sig' = [sig EXCEPT !.result =
                  HmacSha256Result(sig.body, sig.signature_header, sig.secret)]
    /\ UNCHANGED <<shared, ret, th, orphans>>

InitSig == Imported /\ sig \in TwilioCalls \cup HmacCalls

NextSig ==
    \/ verify_twilio_signature
    \/ verify_hmac_sha256

\* A call of one of the two signature verifiers, on each input of the domains.
SpecSig == InitSig /\ [][NextSig]_vars

\* ------------------------------------------------------------- properties

Called(op, k) == ret'.op = op /\ ret'.key = k

\* C1: after every call, whatever time has passed between the calls, every
\* token bucket holds at least 0 and at most capacity tokens.
C1_TokensWithinCapacity ==
    \A k \in DOMAIN token_buckets :
        /\ 0 <= token_buckets[k].tokens
        /\ token_buckets[k].tokens <= Tok(token_buckets[k].capacity)

\* A denied check has left an empty bucket at 0 while a second bucket, checked
\* after time has passed, stays below its capacity.
C1_Witness ==
    \E k \in DOMAIN token_buckets :
        /\ ret = Ret("verify_rate_limit", k, "False")
        /\ token_buckets[k].tokens = 0
        /\ token_buckets[k].last_refill > 0

\* The tokens of key x's bucket after the refill a call at this instant
\* computes: a missing bucket is made full.
C2_TokensAfterRefill(x) ==
    IF x \in DOMAIN token_buckets
    THEN LET b == token_buckets[x]
             t == b.tokens + (clock - b.last_refill) * b.refill_per_sec
         IN IF t > b.capacity * TicksPerSec THEN b.capacity * TicksPerSec ELSE t
    ELSE api_keys_store[x].rate_capacity * TicksPerSec

C2_ShouldSucceed(x) ==
    /\ x \in DOMAIN api_keys_store
    /\ ~(clock \div TicksPerSec > api_keys_store[x].expires_at)
    /\ C2_TokensAfterRefill(x) >= TicksPerSec

\* C2: verify_api_key succeeds exactly when the key is in the key store, is
\* not expired and its bucket holds at least one token after this call's
\* refill; otherwise it fails with one of the four failure kinds.
C2_AuthSucceedsIff ==
    [][\A x \in KeyCandidates :
          Called("verify_api_key", x) =>
              /\ ret'.status = "ok" <=> C2_ShouldSucceed(x)
              /\ ret'.status \in {"ok", "MissingKey", "InvalidKey", "Expired", "RateLimited"}
      ]_vars

\* A call has succeeded on the last token of a bucket that had been drained.
C2_Witness ==
    \E k \in DOMAIN token_buckets :
        /\ ret = Ret("verify_api_key", k, "ok")
        /\ token_buckets[k].tokens = 0
        /\ token_buckets[k].last_refill > api_keys_store[k].created_at * TicksPerSec

\* C3: a completed revoke of k leaves k without record and without bucket;
\* from then on, until a create returns k again, k has neither and every
\* verify_api_key(k) fails with InvalidKey; a create that returns k leaves
\* k's bucket holding its full capacity.
C3_RevokedStaysInvalid ==
    [][\A k \in Keys :
          /\ (Called("revoke_key", k) /\ ret'.status = "ok") =>
                 (k \notin DOMAIN api_keys_store' /\ k \notin DOMAIN token_buckets')
          /\ (/\ k \notin DOMAIN api_keys_store
              /\ k \notin DOMAIN token_buckets
              /\ ~(Called("create_key", k) /\ ret'.status = "ok")) =>
                 /\ k \notin DOMAIN api_keys_store'
                 /\ k \notin DOMAIN token_buckets'
                 /\ Called("verify_api_key", k) => ret'.status = "InvalidKey"
          /\ (Called("create_key", k) /\ ret'.status = "ok") =>
                 /\ k \in DOMAIN token_buckets'
                 /\ token_buckets'[k].tokens = RATE_LIMIT_CAPACITY * TicksPerSec
                 /\ token_buckets'[k].capacity = RATE_LIMIT_CAPACITY
      ]_vars

\* Every key issued so far has been revoked (the snapshot has been written
\* and is empty) and a request with k has then been refused as invalid.
C3_Witness ==
    \E k \in Keys :
        /\ ret = Ret("verify_api_key", k, "InvalidKey")
        /\ file.ok /\ file.members = {}
        /\ api_keys_store = EmptyDict /\ token_buckets = EmptyDict

\* C7: a verify_api_key call that fails with MissingKey, InvalidKey or
\* Expired leaves the bucket map as it was.
C7_EarlyFailureLeavesBuckets ==
    [][(/\ ret'.op = "verify_api_key"
        /\ ret'.status \in {"MissingKey", "InvalidKey", "Expired"}) =>
           token_buckets' = token_buckets
      ]_vars

\* A request with an expired key has been refused as expired, the key's
\* bucket still holding every token it held.
C7_Witness ==
    \E k \in DOMAIN token_buckets :
        /\ ret = Ret("verify_api_key", k, "Expired")
        /\ token_buckets[k].tokens = Tok(token_buckets[k].capacity)

C9_Admitted == ret'.status \in {"True", "ok"}

\* C9: for a live key with a bucket: with no time elapsed since the last
\* refill, a check on n whole tokens (1 <= n <= capacity) is admitted and
\* leaves n - 1, and a check on less than one token is denied, so that a full
\* bucket admits exactly capacity checks; and a check made at least
\* 1/refill_per_sec seconds after the last refill is admitted.
C9_BurstThenRefill ==
    [][\A k \in DOMAIN token_buckets :
          LET b == token_buckets[k]
              live == /\ k \in DOMAIN api_keys_store
                      /\ ~(clock \div TicksPerSec > api_keys_store[k].expires_at)
              elapsed == clock - b.last_refill
          IN (/\ live
              /\ Called("verify_rate_limit", k) \/ Called("verify_api_key", k)) =>
                 /\ (elapsed = 0 /\ b.tokens >= TicksPerSec) =>
                        (C9_Admitted /\ token_buckets'[k].tokens = b.tokens - TicksPerSec)
                 /\ (elapsed = 0 /\ b.tokens < TicksPerSec) =>
                        (~C9_Admitted /\ token_buckets'[k].tokens = b.tokens)
                 /\ (b.refill_per_sec > 0 /\ elapsed * b.refill_per_sec >= TicksPerSec) =>
                        C9_Admitted
      ]_vars

\* At the very instant a key was created, its full bucket has admitted
\* capacity checks and holds 0, and the check after them has been denied.
C9_Witness ==
    \E k \in DOMAIN token_buckets :
        /\ ret = Ret("verify_rate_limit", k, "False")
        /\ k \in DOMAIN api_keys_store
        /\ token_buckets[k].capacity = RATE_LIMIT_CAPACITY
        /\ token_buckets[k].tokens = 0
        /\ token_buckets[k].last_refill = clock
        /\ clock = api_keys_store[k].created_at * TicksPerSec

C10_AdminStep(x) ==
    \/ \E c \in ClientNames, d \in DaysValidInputs : create_key(x, c, d, "ok")
    \/ list_keys(x)
    \/ \E k \in Keys : revoke_key(x, k, "ok")

\* C10: an admin call passes the admin check exactly when its candidate is
\* the configured admin credential; a call whose candidate is anything else
\* fails with InvalidAdminKey and leaves the key store, the snapshot and the
\* bucket map unchanged.
C10_AdminGate ==
    [][\A x \in AdminCandidates :
          C10_AdminStep(x) =>
              /\ (ret'.status = "InvalidAdminKey") <=> (x # "admin_key_change_me")
              /\ (x # "admin_key_change_me") =>
                     UNCHANGED <<api_keys_store, file, token_buckets>>
      ]_vars

\* An admin call with a wrong credential has been refused while a key is
\* live.
C10_Witness ==
    /\ ret.status = "InvalidAdminKey"
    /\ ret.op = "revoke_key"
    /\ ret.key \in DOMAIN api_keys_store
    /\ ret.key \in DOMAIN token_buckets

\* C5 (as claimed): a create_key or revoke_key whose snapshot write fails
\* leaves the in-memory key store as it was before the call.
C5_FailedSaveLeavesStore ==
    [][ret'.status = "IOError" => api_keys_store' = api_keys_store]_vars

\* C4 (as claimed): create_key calls running at once draw distinct keys,
\* and once all of them have returned the snapshot holds the record of every
\* key they created.
C4_NoCreateLost ==
    /\ \A t, u \in Threads :
          (t # u /\ th[t].op = "create_key" /\ th[u].op = "create_key") =>
              th[t].key # th[u].key
    /\ AllIdle =>
          \A k \in DOMAIN api_keys_store :
              /\ file.ok
              /\ <<k, EncodeRecord(api_keys_store[k])>> \in file.members

\* C6 (as claimed): whenever no create_key or revoke_key is in progress, the
\* snapshot can be loaded and loading it gives the in-memory key store.
C6_SnapshotMirrorsStore ==
    AllIdle => (Loadable(file) /\ load_api_keys(file) = api_keys_store)

\* C8 (as claimed): a check that admits takes a token that is there: it finds
\* at least one token in the bucket when it takes it, so that no bucket is
\* ever driven below 0 by more admissions than it had tokens.
C8_AdmitTakesAvailableToken ==
    [][\A t \in Threads : rl112(t) => Bkt(t).tokens >= Tok(1)]_vars

\* C11: a revoke_key of a key that has no record completes without error and
\* leaves the key store, the snapshot and every other key's bucket as they
\* were; a revoke that completed leaves the key with neither record nor
\* bucket, and a revoke of a key with neither changes nothing, so that a
\* second revoke leaves the state of the first.
C11_RevokeAbsentIsNoOp ==
    [][\A k \in Keys :
          (Called("revoke_key", k) /\ ret'.status # "InvalidAdminKey") =>
              /\ k \notin DOMAIN api_keys_store =>
                     /\ ret'.status = "ok"
                     /\ api_keys_store' = api_keys_store
                     /\ file' = file
                     /\ \A j \in Keys \ {k} :
                            /\ j \in DOMAIN token_buckets' <=> j \in DOMAIN token_buckets
                            /\ j \in DOMAIN token_buckets =>
                                   token_buckets'[j] = token_buckets[j]
              /\ ret'.status = "ok" =>
                     (k \notin DOMAIN api_keys_store' /\ k \notin DOMAIN token_buckets')
              /\ (k \notin DOMAIN api_keys_store /\ k \notin DOMAIN token_buckets) =>
                     UNCHANGED <<api_keys_store, token_buckets, file>>
      ]_vars

\* A revoke of a key without record has completed without writing the
\* snapshot (which still holds the key, an earlier revoke's write having
\* failed), another key keeping its partly used bucket.
C11_Witness ==
    \E k \in Keys, j \in DOMAIN token_buckets :
        /\ ret = Ret("revoke_key", k, "ok")
        /\ k \notin DOMAIN api_keys_store
        /\ file.ok /\ k \in {m[1] : m \in file.members}
        /\ j # k
        /\ token_buckets[j].tokens < Tok(token_buckets[j].capacity)

C12_IsTwilioCall ==
    sig.fn = "verify_twilio_signature" /\ sig.result # "pending" /\ sig.token = "tok"

\* The order p takes the items of params in ascending order of their keys.
C12_Ascending(params, p) ==
    \A i, j \in 1..Len(params) :
        i < j => LexLess(params[p[i]][1], params[p[j]][1])

\* url followed by the values of the items of params taken in the order p.
C12_StringOver(url, params, p) ==
    Concat(url, [i \in 1..Len(params) |-> params[p[i]][2]])

\* C12 (as claimed): with a token configured, a signature computed with it
\* over url and the values in ascending order of key verifies true, and one
\* computed over the values in any other order verifies false.
C12_OtherOrderNeverVerifies ==
    C12_IsTwilioCall =>
        \A p \in Orders(Len(sig.params)) :
            sig.signature = SignOver(sig.token, sig.url, sig.params, p) =>
                IF C12_Ascending(sig.params, p)
                THEN sig.result = "True"
                ELSE sig.result = "False"

\* C12 (amended): with a token configured, a signature computed with it over
\* url and the values in ascending order of key verifies true, in whatever
\* order the items were supplied; one computed over the values in another
\* order verifies false when that order gives a string other than the
\* canonical one, and is the canonical signature when it gives the same
\* string; without a token every signature verifies false.
C12_CanonicalOrderSigned ==
    /\ C12_IsTwilioCall =>
           \A p, q \in Orders(Len(sig.params)) :
               (/\ C12_Ascending(sig.params, q)
                /\ sig.signature = SignOver(sig.token, sig.url, sig.params, p)) =>
                   (sig.result = "True" <=>
                        C12_StringOver(sig.url, sig.params, p)
                            = C12_StringOver(sig.url, sig.params, q))
    /\ (/\ sig.fn = "verify_twilio_signature"
        /\ sig.result # "pending"
        /\ sig.token \in {None, ""}) =>
           sig.result = "False"

\* Items supplied in descending order of key, with different values: the
\* signature over the values in ascending order of key has verified.
C12_Witness ==
    /\ C12_IsTwilioCall
    /\ Len(sig.params) = 2
    /\ LexLess(sig.params[2][1], sig.params[1][1])
    /\ sig.params[1][2] # sig.params[2][2]
    /\ sig.signature = SignOver(sig.token, sig.url, sig.params, <<2, 1>>)
    /\ sig.result = "True"

\* The header with a leading "sha256=" removed if it has one.
C13_Stripped(h) ==
    IF Len(h) >= 7 /\ SubSeq(h, 1, 7) = "sha256=" THEN SubSeq(h, 8, Len(h)) ELSE h

\* C13: verify_hmac_sha256 never raises; it returns true exactly when header
\* and secret are present, the body is bytes, and the header, a leading
\* "sha256=" removed, is the hex HMAC-SHA256 of the body under the secret; it
\* returns false for a missing header, a missing secret, a malformed input
\* and a signature that differs from it.
C13_HmacTrueIffMatch ==
    (sig.fn = "verify_hmac_sha256" /\ sig.result # "pending") =>
        /\ sig.result \in {"True", "False"}
        /\ sig.result = "True" <=>
               /\ sig.signature_header \notin {None, ""}
               /\ sig.secret \notin {None, ""}
               /\ sig.body # NotBytes
               /\ C13_Stripped(sig.signature_header)
                      = "hex:sha256(" \o sig.secret \o "," \o sig.body \o ")"

\* A header that is a right signature followed by a character outside ASCII,
\* on which the comparison raises, has been answered with false.
C13_Witness ==
    /\ sig.fn = "verify_hmac_sha256"
    /\ sig.secret = "s3cr3t"
    /\ sig.body = "ping"
    /\ sig.signature_header = "hex:sha256(s3cr3t,ping)" \o NonAsciiChar
    /\ sig.result = "False"

\* Thread t's verify_api_key call ends in this step, with RateLimited.
C14_EndsRateLimited(t) ==
    /\ th[t].op = "verify_api_key"
    /\ th[t].pc # "idle"
    /\ th'[t].pc = "idle"
    /\ ret' = Ret("verify_api_key", th[t].key, "RateLimited")

\* C14 (as claimed): a verify_api_key call ends with RateLimited only when,
\* as it ends, its key is in the key store and not expired, also with a
\* revoke running while the call is in progress.
C14_RateLimitedOnlyForLiveKey ==
    [][\A t \in Threads :
          C14_EndsRateLimited(t) =>
              /\ th[t].key \in DOMAIN api_keys_store
              /\ ~(now_ts(clock) > api_keys_store[th[t].key].expires_at)
      ]_vars

\* The bucket a rate-limit check of k starts from: k's bucket, or a full one
\* made at this instant.
C15_Before(k) ==
    IF k \in DOMAIN token_buckets THEN token_buckets[k]
    ELSE [tokens |-> api_keys_store[k].rate_capacity * TicksPerSec,
          last_refill |-> clock,
          capacity |-> api_keys_store[k].rate_capacity,
          refill_per_sec |-> api_keys_store[k].rate_refill_per_sec]

C15_RefilledTokens(b) ==
    LET t == b.tokens + (clock - b.last_refill) * b.refill_per_sec
    IN IF b.capacity * TicksPerSec <= t THEN b.capacity * TicksPerSec ELSE t

\* C15: a rate-limit check of a live key (made directly or by verify_api_key)
\* leaves the bucket with last_refill set to now and with the refilled
\* tokens min(capacity, tokens + elapsed * refill_per_sec), less exactly one
\* token when it admits and unchanged when it denies; it admits exactly when
\* the refilled tokens are at least one.
C15_RefillThenTakeOne ==
    [][\A k \in DOMAIN api_keys_store :
          (/\ Called("verify_rate_limit", k) \/ Called("verify_api_key", k)
           /\ ~(clock \div TicksPerSec > api_keys_store[k].expires_at)) =>
              LET b == C15_Before(k)
                  r == C15_RefilledTokens(b)
                  a == token_buckets'[k]
              IN /\ k \in DOMAIN token_buckets'
                 /\ a.last_refill = clock
                 /\ a.capacity = b.capacity /\ a.refill_per_sec = b.refill_per_sec
                 /\ ret'.status \in {"True", "ok"} <=> r >= TicksPerSec
                 /\ ret'.status \in {"True", "ok"} => a.tokens = r - TicksPerSec
                 /\ ret'.status \in {"False", "RateLimited"} => a.tokens = r
      ]_vars

\* A check made less than 1/refill_per_sec seconds after the bucket was
\* drained has been denied, leaving the part of a token refilled meanwhile.
C15_Witness ==
    \E k \in DOMAIN token_buckets :
        /\ ret = Ret("verify_rate_limit", k, "False")
        /\ k \in DOMAIN api_keys_store
        /\ token_buckets[k].tokens > 0
        /\ token_buckets[k].tokens < Tok(1)
        /\ token_buckets[k].last_refill = clock

\* C16 (as claimed): a create_key leaves the bucket map without a bucket for
\* the key it returns.
C16_NoBucketAfterCreate ==
    [][\A k \in Keys :
          (Called("create_key", k) /\ ret'.status = "ok") =>
              k \notin DOMAIN token_buckets'
      ]_vars

\* C16 (amended): create_key itself makes the bucket of the key it returns,
\* full and with last_refill at now; any other bucket that appears is made by
\* a rate-limit check of a live key that had none, seeded with the full
\* capacity of its record (of which the check takes its token) and with
\* last_refill at now.
C16_BucketMadeByCreateOrFirstCheck ==
    [][\A k \in Keys :
          /\ (Called("create_key", k) /\ ret'.status = "ok") =>
                 /\ k \in DOMAIN token_buckets'
                 /\ token_buckets'[k] =
                        [tokens |-> RATE_LIMIT_CAPACITY * TicksPerSec,
                         last_refill |-> clock,
                         capacity |-> RATE_LIMIT_CAPACITY,
                         refill_per_sec |-> RATE_LIMIT_REFILL_PER_SEC]
          /\ (/\ k \notin DOMAIN token_buckets
              /\ k \in DOMAIN token_buckets'
              /\ ~Called("create_key", k)) =>
                 /\ Called("verify_rate_limit", k) \/ Called("verify_api_key", k)
                 /\ k \in DOMAIN api_keys_store
                 /\ ret'.status \in {"True", "ok"}
                 /\ token_buckets'[k] =
                        [tokens |-> (api_keys_store[k].rate_capacity - 1) * TicksPerSec,
                         last_refill |-> clock,
                         capacity |-> api_keys_store[k].rate_capacity,
                         refill_per_sec |-> api_keys_store[k].rate_refill_per_sec]
      ]_vars

\* After a restart that followed the creation of both keys, the first check
\* of the older key has made its bucket; the younger key has none yet.
C16_Witness ==
    \E k, j \in DOMAIN api_keys_store :
        /\ api_keys_store[j].created_at > api_keys_store[k].created_at
        /\ j \notin DOMAIN token_buckets
        /\ k \in DOMAIN token_buckets
        /\ ret = Ret("verify_rate_limit", k, "True")
        /\ token_buckets[k].tokens = Tok(api_keys_store[k].rate_capacity) - Tok(1)

\* C17 (as claimed): whenever no call is in progress, every key that has a
\* bucket has a record in the key store.
C17_NoOrphanBuckets ==
    AllIdle => DOMAIN token_buckets \subseteq DOMAIN api_keys_store

\* The checks of key k that have passed the test of line 111 on k's bucket
\* and are about to take their token and return True.
C18_Admitting(k) ==
    {t \in Threads : th[t].pc = "rl112" /\ th[t].key = k /\ th[t].bref = 0}

\* C18 (as claimed), for a window in which no time passes and k is not
\* revoked: the checks admitted on k's bucket since it was full (the tokens
\* taken from it, and the checks about to return True) number at most
\* capacity.
C18_AdmittedWithinCapacity ==
    \A k \in DOMAIN token_buckets :
        LET b == token_buckets[k] IN
        (Tok(b.capacity) - b.tokens) + Tok(Cardinality(C18_Admitting(k)))
            <= Tok(b.capacity)

C19_Ops == {"verify_rate_limit", "verify_api_key", "revoke_key"}

\* The key store, bucket map and snapshot that operation op on key k leaves
\* when made in the state st at this instant, and its result.
C19_Apply(op, k, st) ==
    CASE op = "verify_rate_limit" ->
           [store |-> st.store, file |-> st.file,
            tb |-> RateLimitBuckets(st.store, st.tb, k, clock),
            res |-> IF RateLimitResult(st.store, st.tb, k, clock)
                    THEN "True" ELSE "False"]
      [] op = "verify_api_key" ->
           [store |-> st.store, file |-> st.file,
            tb |-> VerifyApiKeyBuckets(st.store, st.tb, k, clock),
            res |-> VerifyApiKeyStatus(st.store, st.tb, k, clock)]
      [] op = "revoke_key" ->
           [store |-> RevokeStore(st.store, k),
            file |-> IF Has(st.store, k)
                     THEN save_api_keys(RevokeStore(st.store, k), st.file, "ok")
                     ELSE st.file,
            tb |-> RevokeBuckets(st.tb, k),
            res |-> "ok"]

C19_Here == [store |-> api_keys_store, tb |-> token_buckets, file |-> file]

C19_State(r) == [store |-> r.store, tb |-> r.tb, file |-> r.file]

\* Key k has the same record, or none, in s and t, and the same bucket, or none.
C19_SameFor(k, s, t) ==
    /\ k \in DOMAIN s.store <=> k \in DOMAIN t.store
    /\ k \in DOMAIN s.store => s.store[k] = t.store[k]
    /\ k \in DOMAIN s.tb <=> k \in DOMAIN t.tb
    /\ k \in DOMAIN s.tb => s.tb[k] = t.tb[k]

\* C19: a rate-limit check, a verify_api_key or a revoke_key (its admin check
\* passed) on key a does what C19_Apply says and leaves the record and the
\* bucket of every other key as they were; and from every state reached,
\* operations on two different keys a and b give the same results and the
\* same key store, bucket map and snapshot in either order.
C19_OtherKeysUntouched ==
    /\ [][\A a \in Keys, op \in C19_Ops :
            (Called(op, a) /\ ret'.status # "InvalidAdminKey") =>
                /\ [store |-> api_keys_store', tb |-> token_buckets', file |-> file',
                    res |-> ret'.status] = C19_Apply(op, a, C19_Here)
                /\ \A b \in Keys \ {a} :
                       C19_SameFor(b, C19_Here,
                           [store |-> api_keys_store', tb |-> token_buckets',
                            file |-> file'])
         ]_vars
    /\ [](\A a, b \in Keys, opa, opb \in C19_Ops :
            a # b =>
                LET ra == C19_Apply(opa, a, C19_Here)
                    rb == C19_Apply(opb, b, C19_Here)
                    rab == C19_Apply(opb, b, C19_State(ra))
                    rba == C19_Apply(opa, a, C19_State(rb))
                IN /\ C19_State(rab) = C19_State(rba)
                   /\ rab.res = rb.res
                   /\ rba.res = ra.res)

\* A key has been revoked while another key keeps its record and its partly
\* used bucket.
C19_Witness ==
    \E a \in Keys, b \in DOMAIN api_keys_store :
        /\ ret = Ret("revoke_key", a, "ok")
        /\ a # b
        /\ a \notin DOMAIN api_keys_store
        /\ file.ok /\ {m[1] : m \in file.members} = {b}
        /\ b \in DOMAIN token_buckets
        /\ token_buckets[b].tokens = Tok(token_buckets[b].capacity) - Tok(1)

\* C20 (as claimed): every record in the key store has expires_at =
\* created_at + days_valid * 86400 for some days_valid >= 1, so that it
\* expires after it was created; a create_key with days_valid < 1 adds none.
C20_ExpiresAfterCreated ==
    \A k \in DOMAIN api_keys_store :
        LET r == api_keys_store[k] IN
        /\ r.expires_at > r.created_at
        /\ (r.expires_at - r.created_at) % 86400 = 0

====
